---------------------------- MODULE Spec2Model ----------------------------
(***************************************************************************)
(* The Vicinity layer of poldercast (src/poldercast/vicinity.rs): a        *)
(* bounded view of the peers closest to the local node, rebuilt from the   *)
(* node registry by populate, recommended from by gossips and handed to    *)
(* the overlay by view.                                                    *)
(*                                                                         *)
(* The registry (Nodes), the profiles' proximity and the two builders are  *)
(* collaborators whose code is not in vicinity.rs; they are modelled by    *)
(* the contract the layer uses them under.                                 *)
(***************************************************************************)
EXTENDS Integers, Sequences, FiniteSets, TLC

(* ------------------------------ bounds -------------------------------- *)

\* Addresses are 1..NumAddr; their order is the order of the registry's
\* enumeration (Address has a total order).
NumAddr == 3

\* Profiles are 0..MaxProfile.
MaxProfile == 1

\* Vicinity::new is called with max_view_size in 0..MaxViewSize and
\* max_gossip_length in 0..MaxGossipLength.
MaxViewSize == 2

MaxGossipLength == 1

\* select_closest_nodes, called on its own, is given a limit in 0..MaxLimit.
MaxLimit == 4

(* ---------------------------- constants ------------------------------- *)

VICINITY_MAX_VIEW_SIZE == 20

VICINITY_MAX_GOSSIP_LENGTH == 10

(* ------------------------------ values -------------------------------- *)

Address == 1..NumAddr

Profile == 0..MaxProfile

\* Option::None, for an address (NodeProfile::address) or a node (peek).
None == 0 - 1

\* A NodeProfile: what the layer reads of it is its optional address and
\* the interests its proximity is computed from.
NodeProfile == [address : Address \cup {None}, profile : Profile]

\* A Node of the registry pairs an Address with a profile.
Node(id, p) == [address |-> id, profile |-> p]

\* NodeProfile::proximity: a total-order distance, lower is nearer.
Proximity(to, other) == IF to >= other THEN to - other ELSE other - to

Min(a, b) == IF a <= b THEN a ELSE b

\* The elements of a sequence.
Range(s) == {s[i] : i \in 1..Len(s)}

(* ------------------------------- state -------------------------------- *)

VARIABLES
    view,               \* Vicinity.view: Vec<Address>
    max_view_size,      \* Vicinity.max_view_size
    max_gossip_length,  \* Vicinity.max_gossip_length
    nodes,              \* the registry: Address -> the profile of its Node, or None
    available,          \* the registry: the addresses available_nodes() lists
    gossips_builder,    \* the GossipsBuilder of the call just made
    view_builder,       \* the ViewBuilder of the call just made: the nodes added
    call,               \* the call just made, with its arguments
    last_change,        \* the last call that set the view: new, reset or populate
    dropped,            \* the addresses the populate just made found in the old
                        \* view and no longer available and resolving
    selection           \* a call of select_closest_nodes on its own

vars == <<view, max_view_size, max_gossip_length, nodes, available,
          gossips_builder, view_builder, call, last_change, dropped,
          selection>>

(* ----------------------------- registry ------------------------------- *)

\* Nodes::peek and Nodes::peek_mut return Some: a Node is registered under id.
Resolves(id) == nodes[id] # None

\* Nodes::peek and Nodes::peek_mut: the Node registered under id.
peek(id) == Node(id, nodes[id])

\* A sequence of the elements of a set of addresses, ascending.
RECURSIVE Ascending(_)
Ascending(S) ==
    IF S = {} THEN <<>>
    ELSE LET m == CHOOSE x \in S : \A y \in S : x <= y
         IN  <<m>> \o Ascending(S \ {m})

\* Nodes::available_nodes, in the order its iterator yields.
available_nodes == Ascending(available)

\* iter().filter(keep).filter_map(peek).collect(): the Nodes of the
\* available addresses that pass the filter and resolve, in order.
RECURSIVE FilterMapPeek(_, _)
FilterMapPeek(ids, excluded) ==
    IF ids = <<>> THEN <<>>
    ELSE LET id == Head(ids)
             rest == FilterMapPeek(Tail(ids), excluded)
         IN  IF id # excluded /\ Resolves(id)
             THEN <<peek(id)>> \o rest
             ELSE rest

(* ----------------------------- selector ------------------------------- *)

\* The orderings of a set: the sequences that hold each element once.
RECURSIVE Orderings(_)
Orderings(S) ==
    IF S = {} THEN {<<>>}
    ELSE UNION {{<<x>> \o rest : rest \in Orderings(S \ {x})} : x \in S}

\* No shuffle: the slice is left in the order it came in.
ShuffleNothing(profiles) == {profiles}

\* SliceRandom::shuffle: every permutation of the slice is possible (the
\* candidates of a slice are distinct Nodes).
Shuffle(profiles) == Orderings(Range(profiles))

\* The slice is in non-decreasing order of proximity to `to`.
IsSortedBy(to, s) ==
    \A i \in 1..(Len(s) - 1) :
        Proximity(to, s[i].profile) <= Proximity(to, s[i + 1].profile)

\* No sort: the slice is left in the order the shuffle gave it.
ParSortNothing(to, profiles) == {profiles}

\* The comparison reversed: the slice in non-increasing order of proximity.
ParSortDescending(to, profiles) ==
    {s \in Orderings(Range(profiles)) :
        \A i \in 1..(Len(s) - 1) :
            Proximity(to, s[i].profile) >= Proximity(to, s[i + 1].profile)}

\* par_sort_unstable_by: the slice reordered into non-decreasing proximity;
\* the sort is not stable, the order among equal elements is any.
ParSortUnstableBy(to, profiles) ==
    {s \in Orderings(Range(profiles)) : IsSortedBy(to, s)}

\* par_sort_unstable_by when the sort orders equal elements by where they
\* stand in the slice it is given: the one outcome that keeps them in the
\* order they came in.  The comparator sees proximities only, so whatever a
\* sort does with equal elements it does by their positions.
RECURSIVE ParSortByPosition(_, _)
ParSortByPosition(to, profiles) ==
    IF profiles = <<>> THEN <<>>
    ELSE LET last   == profiles[Len(profiles)]
             sorted == ParSortByPosition(to, SubSeq(profiles, 1, Len(profiles) - 1))
             before == Cardinality({i \in 1..Len(sorted) :
                           Proximity(to, sorted[i].profile)
                               <= Proximity(to, last.profile)})
         IN  SubSeq(sorted, 1, before) \o <<last>>
                 \o SubSeq(sorted, before + 1, Len(sorted))

\* take(max) taking one element too many.
TakeOneMore(s, max) == SubSeq(s, 1, Min(max + 1, Len(s)))

\* into_iter().take(max)
Take(s, max) == SubSeq(s, 1, Min(max, Len(s)))

\* map(|v| v.address().clone()).collect()
MapAddress(s) == [i \in 1..Len(s) |-> s[i].address]

\* Vicinity::select_closest_nodes: the results it can return.
select_closest_nodes(to, profiles, max) ==
    {MapAddress(Take(sorted, max)) :
        sorted \in UNION {ParSortUnstableBy(to, shuffled) :
                              shuffled \in Shuffle(profiles)}}

(* ------------------------------ builders ------------------------------ *)

\* A GossipsBuilder: its recipient and the addresses added so far.  The
\* builder is shared by the layers of a topology: it may come with entries.
GossipsBuilder(recipient, gossips) == [recipient |-> recipient, gossips |-> gossips]

\* What a GossipsBuilder may hold when it is handed to the layer.
BuilderEntries == {<<>>, <<1>>}

\* No builder: the call just made had none.
NoBuilder == GossipsBuilder(None, <<>>)

\* GossipsBuilder::add, for each address of a sequence in turn.
RECURSIVE AddAll(_, _)
AddAll(builder, gossips) ==
    IF gossips = <<>> THEN builder
    ELSE AddAll(GossipsBuilder(builder.recipient,
                               Append(builder.gossips, Head(gossips))),
                Tail(gossips))

\* The call just made: the operation, its identity argument and the
\* GossipsBuilder as it was handed in.
Call(op, identity, builder) == [op |-> op, identity |-> identity, builder |-> builder]

NoIdentity == [address |-> None, profile |-> None]

\* A call of select_closest_nodes: its arguments and, once it returned
\* (done), its result.
Selection(to, profiles, max, result, done) ==
    [to |-> to, profiles |-> profiles, max |-> max, result |-> result, done |-> done]

NoSelection == Selection(None, <<>>, 0, <<>>, FALSE)

(* ----------------------------- operations ----------------------------- *)

\* Vicinity::new(max_view_size, max_gossip_length)
New(mvs, mgl) ==
    /\ view = <<>>
    /\ max_view_size = mvs
    /\ max_gossip_length = mgl

\* default() with the two constants taken for each other.
DefaultSwapped ==
    /\ view = <<>>
    /\ max_view_size = VICINITY_MAX_GOSSIP_LENGTH
    /\ max_gossip_length = VICINITY_MAX_VIEW_SIZE

\* Vicinity::default()
Default ==
    /\ view = <<>>
    /\ max_view_size = VICINITY_MAX_VIEW_SIZE
    /\ max_gossip_length = VICINITY_MAX_GOSSIP_LENGTH

\* The registry a topology starts with: no node.
EmptyRegistry ==
    /\ nodes = [id \in Address |-> None]
    /\ available = {}

Init ==
    /\ \/ /\ \E mvs \in 0..MaxViewSize, mgl \in 0..MaxGossipLength : New(mvs, mgl)
          /\ call = Call("new", NoIdentity, NoBuilder)
       \/ /\ Default
          /\ call = Call("default", NoIdentity, NoBuilder)
    /\ EmptyRegistry
    /\ gossips_builder = NoBuilder
    /\ view_builder = <<>>
    /\ last_change = "new"
    /\ dropped = {}
    /\ selection = NoSelection

\* reset leaving the view as it is.
ResetKeepsView ==
    /\ view' = view
    /\ call' = Call("reset", NoIdentity, NoBuilder)
    /\ last_change' = "reset"
    /\ dropped' = {}
    /\ gossips_builder' = NoBuilder
    /\ view_builder' = <<>>
    /\ UNCHANGED <<max_view_size, max_gossip_length, nodes, available, selection>>

\* reset dropping the first address of the view only.
ResetPops ==
    /\ view' = IF view = <<>> THEN <<>> ELSE Tail(view)
    /\ call' = Call("reset", NoIdentity, NoBuilder)
    /\ last_change' = "reset"
    /\ dropped' = {}
    /\ gossips_builder' = NoBuilder
    /\ view_builder' = <<>>
    /\ UNCHANGED <<max_view_size, max_gossip_length, nodes, available, selection>>

\* Vicinity::reset
Reset ==
    /\ view' = <<>>
    /\ call' = Call("reset", NoIdentity, NoBuilder)
    /\ last_change' = "reset"
    /\ dropped' = {}
    /\ gossips_builder' = NoBuilder
    /\ view_builder' = <<>>
    /\ UNCHANGED <<max_view_size, max_gossip_length, nodes, available, selection>>

\* The candidates of populate with the identity's own address left in.
PopulateCandidatesWithSelf(identity) == FilterMapPeek(available_nodes, None)

\* The candidates of populate: the available addresses but the identity's
\* own, resolved.
PopulateCandidates(identity) == FilterMapPeek(available_nodes, identity.address)

\* The addresses of the view that populate would no longer find in the
\* registry: not available, or not resolving.
Dropped == {id \in Range(view) : id \notin available \/ ~Resolves(id)}

\* populate filling the room the old view leaves instead of replacing it.
PopulateKeepsView(identity) ==
    /\ view' \in {Take(view \o selected, max_view_size) :
                    selected \in select_closest_nodes(identity.profile,
                                                      PopulateCandidates(identity),
                                                      max_view_size)}
    /\ call' = Call("populate", identity, NoBuilder)
    /\ last_change' = "populate"
    /\ dropped' = Dropped
    /\ gossips_builder' = NoBuilder
    /\ view_builder' = <<>>
    /\ UNCHANGED <<max_view_size, max_gossip_length, nodes, available, selection>>

\* Vicinity::populate(identity, all_nodes)
Populate(identity) ==
    /\ view' \in select_closest_nodes(identity.profile,
                                      PopulateCandidates(identity),
                                      max_view_size)
    /\ call' = Call("populate", identity, NoBuilder)
    /\ last_change' = "populate"
    /\ dropped' = Dropped
    /\ gossips_builder' = NoBuilder
    /\ view_builder' = <<>>
    /\ UNCHANGED <<max_view_size, max_gossip_length, nodes, available, selection>>

\* The candidates of gossips with the recipient left in.
GossipsCandidatesWithRecipient(recipient) == FilterMapPeek(available_nodes, None)

\* The candidates of gossips taken from the view, not from the registry.
GossipsCandidatesFromView(recipient) == FilterMapPeek(view, recipient)

\* The candidates of gossips: the available addresses but the recipient,
\* resolved.
GossipsCandidates(recipient) == FilterMapPeek(available_nodes, recipient)

\* gossips running the selector whether or not the recipient resolves.
GossipsResultsUnchecked(identity, builder) ==
    {AddAll(builder, gossips) :
        gossips \in select_closest_nodes(nodes[builder.recipient],
                                         GossipsCandidates(builder.recipient),
                                         max_gossip_length)}

\* gossips bounded by max_view_size, not max_gossip_length.
GossipsResultsViewSize(identity, builder) ==
    IF Resolves(builder.recipient)
    THEN {AddAll(builder, gossips) :
             gossips \in select_closest_nodes(peek(builder.recipient).profile,
                                              GossipsCandidates(builder.recipient),
                                              max_view_size)}
    ELSE {builder}

\* gossips leaving out the identity's own address, as populate does.
GossipsResultsNotSelf(identity, builder) ==
    IF Resolves(builder.recipient)
    THEN {AddAll(builder, gossips) :
             gossips \in select_closest_nodes(
                             peek(builder.recipient).profile,
                             SelectSeq(GossipsCandidates(builder.recipient),
                                       LAMBDA node : node.address # identity.address),
                             max_gossip_length)}
    ELSE {builder}

\* What gossips can leave in the builder it is handed.
GossipsResults(identity, builder) ==
    IF Resolves(builder.recipient)
    THEN {AddAll(builder, gossips) :
             gossips \in select_closest_nodes(peek(builder.recipient).profile,
                                              GossipsCandidates(builder.recipient),
                                              max_gossip_length)}
    ELSE {builder}

\* Vicinity::gossips(_identity, gossips_builder, all_nodes)
Gossips(identity, builder) ==
    /\ gossips_builder' \in GossipsResults(identity, builder)
    /\ call' = Call("gossips", NoIdentity, builder)
    /\ dropped' = {}
    /\ view_builder' = <<>>
    /\ UNCHANGED <<view, max_view_size, max_gossip_length, nodes, available,
                   last_change, selection>>

\* view adding every address of the view, resolved or not.
ViewAddsUnresolved(ids) == ids

\* The addresses view adds to the ViewBuilder: those of the view, in its
\* order, that peek_mut resolves.
RECURSIVE ViewAdds(_)
ViewAdds(ids) ==
    IF ids = <<>> THEN <<>>
    ELSE IF Resolves(Head(ids))
         THEN <<Head(ids)>> \o ViewAdds(Tail(ids))
         ELSE ViewAdds(Tail(ids))

\* view taking the addresses it could not resolve off the registry's list
\* of available nodes.
ViewEvicts ==
    /\ view_builder' = ViewAdds(view)
    /\ available' = available \ {id \in Range(view) : ~Resolves(id)}
    /\ call' = Call("view", NoIdentity, NoBuilder)
    /\ dropped' = {}
    /\ gossips_builder' = NoBuilder
    /\ UNCHANGED <<view, max_view_size, max_gossip_length, nodes,
                   last_change, selection>>

\* view dropping from the layer's view the addresses it could not resolve.
ViewPrunes ==
    /\ view_builder' = ViewAdds(view)
    /\ view' = ViewAdds(view)
    /\ call' = Call("view", NoIdentity, NoBuilder)
    /\ dropped' = {}
    /\ gossips_builder' = NoBuilder
    /\ UNCHANGED <<max_view_size, max_gossip_length, nodes, available,
                   last_change, selection>>

\* Vicinity::view(view_builder, all_nodes)
View ==
    /\ view_builder' = ViewAdds(view)
    /\ call' = Call("view", NoIdentity, NoBuilder)
    /\ dropped' = {}
    /\ gossips_builder' = NoBuilder
    /\ UNCHANGED <<view, max_view_size, max_gossip_length, nodes, available,
                   last_change, selection>>

\* Between the calls the registry gains and loses entries: a node is
\* registered (or its profile replaced), a node is removed, an address
\* becomes available or stops being so.
RegistryChange ==
    /\ \/ \E id \in Address, p \in Profile \cup {None} :
             /\ nodes[id] # p
             /\ nodes' = [nodes EXCEPT ![id] = p]
             /\ UNCHANGED available
       \/ \E id \in Address :
             /\ available' = IF id \in available THEN available \ {id}
                                                ELSE available \cup {id}
             /\ UNCHANGED nodes
    /\ call' = Call("registry", NoIdentity, NoBuilder)
    /\ dropped' = {}
    /\ gossips_builder' = NoBuilder
    /\ view_builder' = <<>>
    /\ UNCHANGED <<view, max_view_size, max_gossip_length, last_change, selection>>

\* The identities gossips is called with.  gossips does not read its
\* identity argument (the code names it _identity): one identity without
\* an address and one with an address of the registry exercise it.
GossipsIdentities ==
    {identity \in NodeProfile :
        identity.address \in {None, NumAddr} /\ identity.profile = 0}

Next ==
    \/ Reset
    \/ \E identity \in NodeProfile : Populate(identity)
    \/ \E identity \in GossipsIdentities, recipient \in Address,
          entries \in BuilderEntries :
          Gossips(identity, GossipsBuilder(recipient, entries))
    \/ View
    \/ RegistryChange

Spec == Init /\ [][Next]_vars

(* ----------------------- the selector on its own ---------------------- *)

\* The candidate pools: the sequences of Nodes of distinct addresses, in
\* the order the registry enumerates them (populate and gossips collect
\* the pool from available_nodes().iter()).
Pools ==
    UNION {{[i \in 1..Len(Ascending(ids)) |-> Node(Ascending(ids)[i], p[Ascending(ids)[i]])] :
               p \in [ids -> Profile]} :
           ids \in SUBSET Address}

\* A layer, and a call of select_closest_nodes about to be made with any
\* target, pool and limit.
InitSelect ==
    /\ New(0, 0)
    /\ EmptyRegistry
    /\ gossips_builder = NoBuilder
    /\ view_builder = <<>>
    /\ call = Call("new", NoIdentity, NoBuilder)
    /\ last_change = "new"
    /\ dropped = {}
    /\ \E to \in Profile, profiles \in Pools, max \in 0..MaxLimit :
          selection = Selection(to, profiles, max, <<>>, FALSE)

\* The call is made (and made again: the result may differ each time).
Select ==
    /\ \E result \in select_closest_nodes(selection.to, selection.profiles,
                                           selection.max) :
          selection' = Selection(selection.to, selection.profiles,
                                 selection.max, result, TRUE)
    /\ UNCHANGED <<view, max_view_size, max_gossip_length, nodes, available,
                   gossips_builder, view_builder, call, last_change, dropped>>

NextSelect == Select

SpecSelect == InitSelect /\ [][NextSelect]_vars

(* ======================= select_closest_nodes ========================= *)

\* The profile of the candidate of a pool that has the given address.
ProfileOf(profiles, address) ==
    (CHOOSE node \in Range(profiles) : node.address = address).profile

\* The addresses of the candidates of a pool.
Addresses(profiles) == {node.address : node \in Range(profiles)}

\* C1: select_closest_nodes(P, C, k) returns exactly min(k, |C|)
\* addresses: none from an empty pool or with k = 0, and every candidate
\* when k >= |C|.
C1_SelectLength ==
    selection.done =>
        /\ Len(selection.result) = Min(selection.max, Len(selection.profiles))
        /\ (selection.profiles = <<>> \/ selection.max = 0) => selection.result = <<>>
        /\ selection.max >= Len(selection.profiles) =>
               Range(selection.result) = Addresses(selection.profiles)

\* A call that cut a pool of more than k candidates down to k >= 1.
C1_Witness ==
    /\ selection.done
    /\ selection.max >= 1
    /\ Len(selection.profiles) > selection.max
    /\ Len(selection.result) = selection.max

\* C2: the result of select_closest_nodes is in non-decreasing order of
\* proximity to the target, and no candidate left out is strictly closer
\* to the target than a candidate returned.
C2_SelectClosest ==
    selection.done =>
        LET prox(address) ==
                Proximity(selection.to, ProfileOf(selection.profiles, address))
            result == selection.result
        IN  /\ Range(result) \subseteq Addresses(selection.profiles)
            /\ \A i, j \in 1..Len(result) : i < j => prox(result[i]) <= prox(result[j])
            /\ \A out \in Addresses(selection.profiles) \ Range(result) :
                   \A in \in Range(result) : ~(prox(out) < prox(in))

\* A call that returned two candidates at different proximities and left
\* out a third that the pool listed first.
C2_Witness ==
    /\ selection.done
    /\ Len(selection.result) = 2
    /\ Len(selection.profiles) = 3
    /\ selection.profiles[1].address \notin Range(selection.result)
    /\ Proximity(selection.to, ProfileOf(selection.profiles, selection.result[1]))
         < Proximity(selection.to, ProfileOf(selection.profiles, selection.result[2]))

\* The proximity to the target of the candidates of the call.
SelectionProximity(node) == Proximity(selection.to, node.profile)

\* The proximity at the cut-off: that of the last candidate a sorted pool
\* has within the limit.
CutOff ==
    CHOOSE v \in {SelectionProximity(node) : node \in Range(selection.profiles)} :
        /\ Cardinality({node \in Range(selection.profiles) :
                            SelectionProximity(node) < v}) < selection.max
        /\ Cardinality({node \in Range(selection.profiles) :
                            SelectionProximity(node) <= v}) >= selection.max

\* The candidates strictly closer than the cut-off, and those tied at it.
Closer == {node \in Range(selection.profiles) : SelectionProximity(node) < CutOff}

Tied == {node \in Range(selection.profiles) : SelectionProximity(node) = CutOff}

\* The call cuts the pool inside a group of candidates of equal proximity:
\* more candidates tie at the cut-off than slots are left for them.
TieAtCutOff ==
    /\ selection.max >= 1
    /\ selection.max < Len(selection.profiles)
    /\ Cardinality(Tied) > selection.max - Cardinality(Closer)

\* The results of the call when ties are settled by the shuffle alone, the
\* sort keeping equal elements in the order the shuffle left them.
ResultsByShuffle ==
    {MapAddress(Take(ParSortByPosition(selection.to, shuffled), selection.max)) :
        shuffled \in Shuffle(selection.profiles)}

\* C14: which of the candidates tied at the cut-off are returned varies
\* from call to call.  When more candidates tie at the cut-off than slots
\* are left, each of them is in one possible result of the call on these
\* inputs and out of another; the shuffle alone brings that about.
C14_TieMembershipVaries ==
    TieAtCutOff =>
        LET results == select_closest_nodes(selection.to, selection.profiles,
                                            selection.max)
        IN  \A node \in Tied :
                /\ \E result \in results : node.address \in Range(result)
                /\ \E result \in results : node.address \notin Range(result)
                /\ \E result \in ResultsByShuffle : node.address \in Range(result)
                /\ \E result \in ResultsByShuffle : node.address \notin Range(result)

\* A call made with a limit of 1 on a pool of three candidates, two of
\* them tied closest: it returned the one the pool lists second.
C14_Witness ==
    /\ selection.done
    /\ TieAtCutOff
    /\ selection.max = 1
    /\ Len(selection.profiles) = 3
    /\ Cardinality(Tied) = 2
    /\ selection.result = <<selection.profiles[2].address>>
    /\ selection.profiles[2] \in Tied
    /\ selection.profiles[1] \in Tied

(* ========================== the Vicinity layer ======================== *)

\* The registry's nodes that are available and resolve, but one address.
Pool(excluded) == {id \in available : Resolves(id) /\ id # excluded}

\* What the gossips call just made added to the builder it was handed.
Appended ==
    SubSeq(gossips_builder.gossips, Len(call.builder.gossips) + 1,
           Len(gossips_builder.gossips))

\* A sequence without repetition.
NoDup(s) == \A i, j \in 1..Len(s) : s[i] = s[j] => i = j

\* The addresses ids are count nodes of pool closest to the profile `to`,
\* in non-decreasing order of proximity.
ClosestOf(ids, pool, to, count) ==
    LET prox(id) == Proximity(to, nodes[id])
    IN  /\ Len(ids) = count
        /\ NoDup(ids)
        /\ Range(ids) \subseteq pool
        /\ \A i, j \in 1..Len(ids) : i < j => prox(ids[i]) <= prox(ids[j])
        /\ \A out \in pool \ Range(ids) : \A in \in Range(ids) : prox(out) >= prox(in)

\* C3: in every reachable state the view holds at most max_view_size
\* addresses and no address twice.
C3_ViewBounded ==
    /\ Len(view) <= max_view_size
    /\ NoDup(view)

\* A populate that filled the view to max_view_size >= 1 from a larger pool.
C3_Witness ==
    /\ call.op = "populate"
    /\ max_view_size >= 1
    /\ Len(view) = max_view_size
    /\ Cardinality(Pool(call.identity.address)) > max_view_size

\* C4: populate never places the address of the identity it is given
\* into the view, and no other operation adds an address to the view: the
\* view never holds the address of the identity of the last populate.
C4_NeverSelf ==
    [][/\ call'.op = "populate" => call'.identity.address \notin Range(view')
       /\ call'.op # "populate" => Range(view') \subseteq Range(view)]_vars

\* A populate for an identity whose own address the registry lists as
\* available and resolvable, with room left in the view.
C4_Witness ==
    /\ call.op = "populate"
    /\ call.identity.address \in available
    /\ Resolves(call.identity.address)
    /\ view # <<>>
    /\ Len(view) < max_view_size

\* C5: a gossips call whose recipient resolves appends at most
\* max_gossip_length addresses, never the recipient's, none twice.
C5_GossipsBounded ==
    (call.op = "gossips" /\ Resolves(call.builder.recipient)) =>
        /\ gossips_builder.recipient = call.builder.recipient
        /\ Len(Appended) <= max_gossip_length
        /\ call.builder.recipient \notin Range(Appended)
        /\ NoDup(Appended)

\* A gossips call for an available recipient that appended
\* max_gossip_length >= 1 addresses, with more candidates at hand.
C5_Witness ==
    /\ call.op = "gossips"
    /\ Resolves(call.builder.recipient)
    /\ call.builder.recipient \in available
    /\ max_gossip_length >= 1
    /\ Len(Appended) = max_gossip_length
    /\ Cardinality(Pool(call.builder.recipient)) > max_gossip_length

\* C6: gossips for a recipient the registry does not resolve leaves the
\* builder as it was handed in, and in every state such a call has this
\* one outcome, whatever the registry and the view hold.
C6_UnknownRecipient ==
    /\ (call.op = "gossips" /\ ~Resolves(call.builder.recipient)) =>
           gossips_builder = call.builder
    /\ \A identity \in NodeProfile, recipient \in Address, entries \in BuilderEntries :
           ~Resolves(recipient) =>
               GossipsResults(identity, GossipsBuilder(recipient, entries))
                   = {GossipsBuilder(recipient, entries)}

\* A gossips call for an unresolved recipient, with a builder that held an
\* entry, candidates in the registry and a populated view.
C6_Witness ==
    /\ call.op = "gossips"
    /\ ~Resolves(call.builder.recipient)
    /\ call.builder.gossips # <<>>
    /\ Pool(call.builder.recipient) # {}
    /\ max_gossip_length >= 1
    /\ view # <<>>

\* C7: a view export on a layer never populated, or not populated since
\* its last reset, adds no node to the view builder.
C7_NothingToExport ==
    (call.op = "view" /\ last_change \in {"new", "reset"}) => view_builder = <<>>

\* An export after a reset, on a registry with an available node.
C7_Witness ==
    /\ call.op = "view"
    /\ last_change = "reset"
    /\ Pool(None) # {}
    /\ max_view_size >= 1

\* C8: a gossips call whose recipient resolves appends exactly
\* min(max_gossip_length, n) of the n available, resolvable nodes other
\* than the recipient: the closest to the recipient's profile, in order of
\* proximity, whatever the view holds.  With three registry nodes, the
\* recipient among them, and max_gossip_length = 10 these are the other two.
C8_GossipsClosest ==
    (call.op = "gossips" /\ Resolves(call.builder.recipient)) =>
        LET recipient == call.builder.recipient
        IN  /\ ClosestOf(Appended, Pool(recipient), nodes[recipient],
                         Min(max_gossip_length, Cardinality(Pool(recipient))))
            /\ (/\ max_gossip_length = 10
                /\ Cardinality(Pool(None)) = 3
                /\ recipient \in Pool(None)) =>
                   Range(Appended) = Pool(None) \ {recipient}

\* The gossips call of the example, made on a layer with an empty view.
C8_Witness ==
    /\ call.op = "gossips"
    /\ max_gossip_length = 10
    /\ Cardinality(Pool(None)) = 3
    /\ call.builder.recipient \in Pool(None)
    /\ Len(Appended) = 2
    /\ view = <<>>

C10_NoGossips ==
    (call.op = "gossips" /\ max_gossip_length = 0) => gossips_builder = call.builder

\* A gossips call with max_gossip_length = 0 for a recipient that
\* resolves, with candidates in the registry.
C10_Witness ==
    /\ call.op = "gossips"
    /\ max_gossip_length = 0
    /\ Resolves(call.builder.recipient)
    /\ Pool(call.builder.recipient) # {}

\* The position of an address in a sequence that holds it once.
IndexOf(s, id) == CHOOSE i \in 1..Len(s) : s[i] = id

\* C11: a view export adds to the view builder exactly the addresses of
\* the view that resolve in the registry, each once and in the order of
\* the view; the others are skipped.
C11_ExportResolved ==
    call.op = "view" =>
        /\ Range(view_builder) = {id \in Range(view) : Resolves(id)}
        /\ NoDup(view_builder)
        /\ \A i, j \in 1..Len(view_builder) :
               i < j => IndexOf(view, view_builder[i]) < IndexOf(view, view_builder[j])

\* An export of a view of three addresses of which the registry has since
\* lost one: the other two are added.
C11_Witness ==
    /\ call.op = "view"
    /\ Len(view) = 3
    /\ Len(view_builder) = 2
    /\ \E id \in Range(view) : ~Resolves(id)

\* C12: gossips and the view export leave the view of the layer as it is,
\* the same addresses in the same order, whether or not the recipient or
\* the addresses of the view resolve; a step that changes the view is a
\* reset or a populate.
C12_ViewReadOnly ==
    [][/\ call'.op \in {"gossips", "view"} => view' = view
       /\ view' # view => call'.op \in {"reset", "populate"}]_vars

\* Gossips served to a resolving recipient by a layer whose view holds an
\* address the registry no longer resolves.
C12_Witness ==
    /\ call.op = "gossips"
    /\ Resolves(call.builder.recipient)
    /\ Appended # <<>>
    /\ \E id \in Range(view) : ~Resolves(id)

\* C13: populate replaces the view wholesale.  After a populate every
\* address of the view is one the registry listed as available and
\* resolved at that call, and an address the old view held that the
\* registry has dropped is gone, with or without a reset in between.
C13_PopulateReplaces ==
    call.op = "populate" =>
        /\ \A id \in Range(view) : id \in available /\ Resolves(id)
        /\ dropped \cap Range(view) = {}

\* A populate, not preceded by a reset, of a view that held an address the
\* registry has dropped; the new view is not empty.
C13_Witness ==
    /\ call.op = "populate"
    /\ dropped # {}
    /\ view # <<>>

\* C15: reset can be called in every state and is idempotent.  A reset
\* leaves the view empty and the bounds as they were; a reset made right
\* after a reset leaves the layer exactly as the first one left it.
C15_ResetIdempotent ==
    [][/\ ENABLED Reset
       /\ call'.op = "reset" =>
              /\ view' = <<>>
              /\ max_view_size' = max_view_size
              /\ max_gossip_length' = max_gossip_length
              /\ call.op = "reset" =>
                     <<view', max_view_size', max_gossip_length'>>
                         = <<view, max_view_size, max_gossip_length>>]_vars

\* A reset of a layer that has room in its view, with the registry still
\* listing nodes a populate would take.
C15_Witness ==
    /\ call.op = "reset"
    /\ view = <<>>
    /\ max_view_size >= 1
    /\ Pool(None) # {}

\* C16: the bounds of a layer are fixed when it is built.  A layer built
\* by default() starts with an empty view, max_view_size = 20 and
\* max_gossip_length = 10, and no step of any layer changes either bound.
C16_BoundsFixed ==
    /\ call.op = "default" =>
           /\ view = <<>>
           /\ max_view_size = 20
           /\ max_gossip_length = 10
    /\ [][/\ max_view_size' = max_view_size
          /\ max_gossip_length' = max_gossip_length]_vars

\* A layer built by default(), populated later with more addresses than
\* the layers built by new() hold here: its bounds are still 20 and 10.
C16_Witness ==
    /\ call.op = "populate"
    /\ Len(view) > MaxViewSize
    /\ max_view_size = 20
    /\ max_gossip_length = 10

\* C17: the layer never changes which nodes the registry holds.  reset,
\* populate and gossips leave the registry exactly as it was; a view
\* export leaves the registered and the available addresses as they were
\* and hands out nodes of addresses of the view only.
C17_RegistryKept ==
    [][/\ call'.op \in {"reset", "populate", "gossips"} =>
              /\ nodes' = nodes
              /\ available' = available
       /\ call'.op = "view" =>
              /\ {id \in Address : nodes'[id] # None} = {id \in Address : Resolves(id)}
              /\ available' = available
              /\ Range(view_builder') \subseteq Range(view)]_vars

\* An export that handed out a node of the view, passed over an address
\* of the view that is available but no longer registered, and left alone
\* a registered node that is not in the view.
C17_Witness ==
    /\ call.op = "view"
    /\ view_builder # <<>>
    /\ \E id \in Range(view) : ~Resolves(id) /\ id \in available
    /\ \E id \in Address \ Range(view) : Resolves(id)

\* What a result of gossips holds beyond the entries of the builder the
\* call was handed.
AppendedIn(result) ==
    SubSeq(result.gossips, Len(call.builder.gossips) + 1, Len(result.gossips))

\* C18: gossips does not depend on the identity of the local node.  For
\* the builder and registry of a call, the results the call can have are
\* the same for every identity, the one observed among them; the only
\* address held back is the recipient's, and an identity's own address is
\* recommended in every result when it is surely among the
\* max_gossip_length closest to the recipient, and in some result when it
\* can be among them.
C18_IdentityIgnored ==
    call.op = "gossips" =>
        LET recipient == call.builder.recipient
            results(identity) == GossipsResults(identity, call.builder)
            prox(id) == Proximity(nodes[recipient], nodes[id])
        IN  \A identity \in NodeProfile :
                /\ results(identity) = results(NoIdentity)
                /\ gossips_builder \in results(identity)
                /\ \A result \in results(identity) :
                       recipient \notin Range(AppendedIn(result))
                /\ (Resolves(recipient) /\ identity.address \in Pool(recipient)) =>
                       LET self == identity.address
                           closer == {id \in Pool(recipient) : prox(id) < prox(self)}
                           within == {id \in Pool(recipient) : prox(id) <= prox(self)}
                       IN  /\ Cardinality(within) <= max_gossip_length =>
                                  \A result \in results(identity) :
                                      self \in Range(AppendedIn(result))
                           /\ Cardinality(closer) < max_gossip_length =>
                                  \E result \in results(identity) :
                                      self \in Range(AppendedIn(result))

\* A gossips call that had to choose among more nodes than it may
\* recommend and recommended the address of the identity it is called
\* with here, the last address of the registry.
C18_Witness ==
    /\ call.op = "gossips"
    /\ Resolves(call.builder.recipient)
    /\ Cardinality(Pool(call.builder.recipient)) > max_gossip_length
    /\ NumAddr \in Range(Appended)

====
